---------------------------- MODULE Spec2Model ----------------------------
(***************************************************************************)
(* Model of app.py, the WSGI application that records shift changes in an  *)
(* SQLite table and searches them.                                         *)
(*                                                                         *)
(* Text is a sequence of one-character strings, so that strip(), upper(),  *)
(* strptime("%H:%M"), LIKE and the BINARY collation of ORDER BY are        *)
(* computed character by character, as the code and its libraries do.      *)
(* total_hours (a REAL rounded to 2 decimals) is an integer number of      *)
(* hundredths of an hour: 800 is 8.0.                                      *)
(***************************************************************************)
EXTENDS Integers, Sequences, FiniteSets, TLC

VARIABLES tableExists, rows, seq, req, resp, submitted

vars == <<tableExists, rows, seq, req, resp, submitted>>

---------------------------------------------------------------------------
(* Bounds of the model.                                                    *)

\* rows the table may hold in Spec and in SpecSearch
MaxRows == 3

---------------------------------------------------------------------------
(* Characters and text.                                                    *)

\* the ASCII characters the texts of the model are written in
Digits == <<"0", "1", "2", "3", "4", "5", "6", "7", "8", "9">>

UpperCase ==
  <<"A", "B", "C", "D", "E", "F", "G", "H", "I", "J", "K", "L", "M",
    "N", "O", "P", "Q", "R", "S", "T", "U", "V", "W", "X", "Y", "Z">>

LowerCase ==
  <<"a", "b", "c", "d", "e", "f", "g", "h", "i", "j", "k", "l", "m",
    "n", "o", "p", "q", "r", "s", "t", "u", "v", "w", "x", "y", "z">>

IndexOf(c, s) == CHOOSE i \in DOMAIN s : s[i] = c

InSeq(c, s) == \E i \in DOMAIN s : s[i] = c

\* the ASCII code of a character
Ord(c) ==
  IF InSeq(c, Digits) THEN 47 + IndexOf(c, Digits)
  ELSE IF InSeq(c, UpperCase) THEN 64 + IndexOf(c, UpperCase)
  ELSE IF InSeq(c, LowerCase) THEN 96 + IndexOf(c, LowerCase)
  ELSE CASE c = " " -> 32
         [] c = "%" -> 37
         [] c = "-" -> 45
         [] c = ":" -> 58
         [] c = "_" -> 95

IsDigit(c) == InSeq(c, Digits)

DigitVal(c) == IndexOf(c, Digits) - 1

IsSpace(c) == c = " "

\* str.upper() of one ASCII character
UpperChar(c) ==
  IF InSeq(c, LowerCase) THEN UpperCase[IndexOf(c, LowerCase)] ELSE c

\* upper() left out: the method is compared as it was sent
upper_omitted(s) == s

\* str.upper()
upper(s) == [i \in DOMAIN s |-> UpperChar(s[i])]

RECURSIVE lstrip(_)
lstrip(s) == IF s # <<>> /\ IsSpace(Head(s)) THEN lstrip(Tail(s)) ELSE s

RECURSIVE rstrip(_)
rstrip(s) ==
  IF s # <<>> /\ IsSpace(s[Len(s)]) THEN rstrip(SubSeq(s, 1, Len(s) - 1)) ELSE s

\* str.strip()
strip(s) == rstrip(lstrip(s))

---------------------------------------------------------------------------
(* datetime.strptime(s, "%H:%M"): the format compiles to the regular       *)
(* expression (2[0-3]|[0-1]\d|\d):([0-5]\d|\d), matched at the start of s  *)
(* with the alternatives tried in order; the match must then cover s.      *)

\* %H taken to match 2[0-9]
HourAlts_to29(s) ==
  (IF Len(s) >= 2 /\ s[1] \in {"0", "1", "2"} /\ IsDigit(s[2])
     THEN <<2>> ELSE <<>>)
  \o (IF Len(s) >= 1 /\ IsDigit(s[1]) THEN <<1>> ELSE <<>>)

\* lengths of the prefixes of s that %H matches, in the order tried
HourAlts(s) ==
  (IF Len(s) >= 2 /\ s[1] = "2" /\ s[2] \in {"0", "1", "2", "3"}
     THEN <<2>> ELSE <<>>)
  \o (IF Len(s) >= 2 /\ s[1] \in {"0", "1"} /\ IsDigit(s[2])
        THEN <<2>> ELSE <<>>)
  \o (IF Len(s) >= 1 /\ IsDigit(s[1]) THEN <<1>> ELSE <<>>)

\* lengths of the prefixes of s that %M matches, in the order tried
MinuteAlts(s) ==
  (IF Len(s) >= 2 /\ s[1] \in {"0", "1", "2", "3", "4", "5"} /\ IsDigit(s[2])
     THEN <<2>> ELSE <<>>)
  \o (IF Len(s) >= 1 /\ IsDigit(s[1]) THEN <<1>> ELSE <<>>)

RECURSIVE Decimal(_)
Decimal(s) ==
  IF s = <<>> THEN 0
  ELSE 10 * Decimal(SubSeq(s, 1, Len(s) - 1)) + DigitVal(s[Len(s)])

\* the ValueError of strptime
ParseError == [minutes |-> 0, ok |-> FALSE]

\* the hour alternatives after which ":" and a minute match
MatchHM(s) ==
  SelectSeq(HourAlts(s), LAMBDA hl :
    /\ Len(s) > hl
    /\ s[hl + 1] = ":"
    /\ MinuteAlts(SubSeq(s, hl + 2, Len(s))) # <<>>)

\* the match of hl hour and ml minute characters must cover s
Converted(s, hl, ml) ==
  IF hl + 1 + ml # Len(s)
    THEN ParseError
    ELSE [minutes |-> 60 * Decimal(SubSeq(s, 1, hl))
                      + Decimal(SubSeq(s, hl + 2, hl + 1 + ml)),
          ok |-> TRUE]

FirstMatch(s, good) ==
  IF good = <<>>
    THEN ParseError
    ELSE Converted(s, good[1], MinuteAlts(SubSeq(s, good[1] + 2, Len(s)))[1])

\* [minutes, ok]: minutes since midnight of the parsed time, or the ValueError
strptime(s) == FirstMatch(s, MatchHM(s))

\* round(minutes / 60.0, 2), in hundredths of an hour
round2(minutes) == (10 * minutes + 3) \div 6

\* end < start in place of end <= start
Elapsed_strict(start, end) ==
  IF ~start.ok \/ ~end.ok
    THEN [hours |-> 0, ok |-> FALSE]
    ELSE [hours |-> round2((IF end.minutes < start.minutes
                             THEN end.minutes + 1440
                             ELSE end.minutes) - start.minutes),
          ok |-> TRUE]

\* the end never moved to the next day
Elapsed_same_day(start, end) ==
  IF ~start.ok \/ ~end.ok
    THEN [hours |-> 0, ok |-> FALSE]
    ELSE [hours |-> round2(end.minutes - start.minutes), ok |-> TRUE]

\* lines 72-76, on the two parsed times
Elapsed(start, end) ==
  IF ~start.ok \/ ~end.ok
    THEN [hours |-> 0, ok |-> FALSE]
    ELSE [hours |-> round2((IF end.minutes <= start.minutes
                             THEN end.minutes + 1440
                             ELSE end.minutes) - start.minutes),
          ok |-> TRUE]

compute_total_hours(start_time, end_time) ==
  Elapsed(strptime(start_time), strptime(end_time))

---------------------------------------------------------------------------
(* SQLite: the table, AUTOINCREMENT, LIKE and ORDER BY.                    *)

Max(a, b) == IF a >= b THEN a ELSE b

RECURSIVE MaxId(_)
MaxId(rs) == IF rs = <<>> THEN 0 ELSE Max(Head(rs).id, MaxId(Tail(rs)))

\* DROP TABLE, then CREATE TABLE
init_db_recreate(db) == [exists |-> TRUE, rows |-> <<>>, seq |-> 0]

\* CREATE TABLE IF NOT EXISTS on the store [exists, rows, seq]
init_db(db) ==
  IF db.exists THEN db ELSE [exists |-> TRUE, rows |-> <<>>, seq |-> 0]

\* the row of id id with the columns of r
Row(id, r) ==
  [comment |-> r.comment, date |-> r.date, employee_name |-> r.employee_name,
   end_time |-> r.end_time, id |-> id, rotation |-> r.rotation,
   start_time |-> r.start_time, total_hours |-> r.total_hours]

InsertAs(db, r, id) ==
  [exists |-> db.exists, rows |-> Append(db.rows, Row(id, r)), seq |-> id]

\* the id not incremented
insert_same_id(db, r) == InsertAs(db, r, Max(db.seq, MaxId(db.rows)))

\* INSERT INTO shift_changes: the id is one more than the largest ever used
insert(db, r) == InsertAs(db, r, Max(db.seq, MaxId(db.rows)) + 1)

\* the ASCII lower-casing LIKE applies to both sides
LowerChar(c) ==
  IF InSeq(c, UpperCase) THEN LowerCase[IndexOf(c, UpperCase)] ELSE c

\* LIKE comparing letters with their case
RECURSIVE Like_case_sensitive(_, _)
Like_case_sensitive(p, s) ==
  IF p = <<>> THEN s = <<>>
  ELSE IF Head(p) = "%"
    THEN Like_case_sensitive(Tail(p), s)
         \/ (s # <<>> /\ Like_case_sensitive(p, Tail(s)))
  ELSE IF s = <<>> THEN FALSE
  ELSE IF Head(p) = "_" THEN Like_case_sensitive(Tail(p), Tail(s))
  ELSE Head(p) = Head(s) /\ Like_case_sensitive(Tail(p), Tail(s))

\* pattern LIKE s: % matches any run, _ any one character
RECURSIVE Like(_, _)
Like(p, s) ==
  IF p = <<>> THEN s = <<>>
  ELSE IF Head(p) = "%"
    THEN Like(Tail(p), s) \/ (s # <<>> /\ Like(p, Tail(s)))
  ELSE IF s = <<>> THEN FALSE
  ELSE IF Head(p) = "_" THEN Like(Tail(p), Tail(s))
  ELSE LowerChar(Head(p)) = LowerChar(Head(s)) /\ Like(Tail(p), Tail(s))

\* memcmp order of two texts (the BINARY collation): -1, 0 or 1
RECURSIVE StrCmp(_, _)
StrCmp(a, b) ==
  IF a = <<>> /\ b = <<>> THEN 0
  ELSE IF a = <<>> THEN -1
  ELSE IF b = <<>> THEN 1
  ELSE IF Ord(Head(a)) < Ord(Head(b)) THEN -1
  ELSE IF Ord(Head(a)) > Ord(Head(b)) THEN 1
  ELSE StrCmp(Tail(a), Tail(b))

\* ORDER BY date ASC, start_time ASC
OrderBefore_date_asc(a, b) ==
  \/ StrCmp(a.date, b.date) = -1
  \/ StrCmp(a.date, b.date) = 0 /\ StrCmp(a.start_time, b.start_time) = -1

\* a sorts strictly before b under ORDER BY date DESC, start_time ASC
OrderBefore(a, b) ==
  \/ StrCmp(a.date, b.date) = 1
  \/ StrCmp(a.date, b.date) = 0 /\ StrCmp(a.start_time, b.start_time) = -1

RECURSIVE SortInsert(_, _)
SortInsert(x, sorted) ==
  IF sorted = <<>> THEN <<x>>
  ELSE IF OrderBefore(x, Head(sorted)) THEN <<x>> \o sorted
  ELSE <<Head(sorted)>> \o SortInsert(x, Tail(sorted))

RECURSIVE OrderBy(_)
OrderBy(rs) ==
  IF rs = <<>> THEN <<>>
  ELSE SortInsert(rs[Len(rs)], OrderBy(SubSeq(rs, 1, Len(rs) - 1)))

\* the WHERE clause the search builds from its two trimmed filters
Where(r, employee_name, date) ==
  /\ employee_name # <<>> => Like(<<"%">> \o employee_name \o <<"%">>, r.employee_name)
  /\ date # <<>> => r.date = date

\* SELECT * FROM shift_changes WHERE ... ORDER BY date DESC, start_time ASC
select(db, employee_name, date) ==
  OrderBy(SelectSeq(db.rows, LAMBDA r : Where(r, employee_name, date)))

---------------------------------------------------------------------------
(* The request handler.                                                    *)

\* a request body is a sequence of decoded <<key, value>> pairs; parse_qs
\* drops the blank values and the handler keeps the first value of each key
FirstOf(kept, k) ==
  kept[CHOOSE i \in DOMAIN kept :
         kept[i][1] = k /\ \A j \in 1..(i - 1) : kept[j][1] # k][2]

Dict(kept) == [k \in {kept[i][1] : i \in DOMAIN kept} |-> FirstOf(kept, k)]

parse_post_data(body) == Dict(SelectSeq(body, LAMBDA kv : kv[2] # <<>>))

\* form.get(key): the missing key read as None
Get_none(form, key) ==
  IF key \in DOMAIN form THEN form[key] ELSE <<"N", "o", "n", "e">>

\* form.get(key, "")
Get(form, key) == IF key \in DOMAIN form THEN form[key] ELSE <<>>

GET == <<"G", "E", "T">>
POST == <<"P", "O", "S", "T">>

NoResp == [body |-> "", headers |-> <<>>, raised |-> "", results |-> <<>>,
           status |-> ""]

Response(status, headers, body, results) ==
  [body |-> body, headers |-> headers, raised |-> "", results |-> results,
   status |-> status]

\* the exception leaves application() before start_response is called
Raise(exc) ==
  [body |-> "", headers |-> <<>>, raised |-> exc, results |-> <<>>,
   status |-> ""]

\* the date stored trimmed, as the name and the comment are
InsertShift_trim_date(form, total_hours, db) ==
  IF ~total_hours.ok
    THEN [db |-> db, resp |-> Raise("ValueError")]
    ELSE [db |-> insert(db, [comment |-> strip(Get(form, "comment")),
                             date |-> strip(Get(form, "date")),
                             employee_name |-> strip(Get(form, "employee_name")),
                             end_time |-> Get(form, "end_time"),
                             rotation |-> Get(form, "rotation"),
                             start_time |-> Get(form, "start_time"),
                             total_hours |-> total_hours.hours]),
          resp |-> Response("303 See Other", <<<<"Location", "/">>>>,
                            "", <<>>)]

\* lines 147-161, or the ValueError of line 146
InsertShift(form, total_hours, db) ==
  IF ~total_hours.ok
    THEN [db |-> db, resp |-> Raise("ValueError")]
    ELSE [db |-> insert(db, [comment |-> strip(Get(form, "comment")),
                             date |-> Get(form, "date"),
                             employee_name |-> strip(Get(form, "employee_name")),
                             end_time |-> Get(form, "end_time"),
                             rotation |-> Get(form, "rotation"),
                             start_time |-> Get(form, "start_time"),
                             total_hours |-> total_hours.hours]),
          resp |-> Response("303 See Other", <<<<"Location", "/">>>>,
                            "", <<>>)]

\* lines 140-146 on the parsed form
EnterShift(form, db) ==
  InsertShift(form,
              compute_total_hours(Get(form, "start_time"), Get(form, "end_time")),
              db)

\* POST /: lines 139-161
post_root(environ, db) == EnterShift(parse_post_data(environ.body), db)

\* lines 170-186 on the parsed form
SearchShifts(form, db) ==
  [db |-> db,
   resp |-> Response("200 OK",
                     <<<<"Content-Type", "text/html; charset=utf-8">>>>,
                     "search.html",
                     select(db, strip(Get(form, "employee_name")),
                            strip(Get(form, "date"))))]

\* POST /search: lines 168-191
post_search(environ, db) == SearchShifts(parse_post_data(environ.body), db)

\* lines 137-195 on the path, the upper-cased method and the initialized store
Dispatch(environ, path, method, db) ==
  IF path = "/" /\ method \in {GET, POST}
    THEN IF method = POST
           THEN post_root(environ, db)
           ELSE [db |-> db,
                 resp |-> Response("200 OK",
                            <<<<"Content-Type", "text/html; charset=utf-8">>>>,
                            "index.html", <<>>)]
  ELSE IF path = "/search" /\ method \in {GET, POST}
    THEN IF method = POST
           THEN post_search(environ, db)
           ELSE [db |-> db,
                 resp |-> Response("200 OK",
                            <<<<"Content-Type", "text/html; charset=utf-8">>>>,
                            "search.html", <<>>)]
  ELSE [db |-> db,
        resp |-> Response("404 Not Found",
                   <<<<"Content-Type", "text/plain; charset=utf-8">>>>,
                   "404 Not Found", <<>>)]

\* application(environ, start_response) on the store db: [db, resp]
application(environ, db) ==
  Dispatch(environ, environ.path, upper(environ.method), init_db(db))

Store == [exists |-> tableExists, rows |-> rows, seq |-> seq]

\* the request environ answered with out = [db, resp]; submitted remembers,
\* row by row, the form each stored row was submitted with (a history variable)
Answer(environ, out) ==
  /\ Len(out.db.rows) <= MaxRows
  /\ tableExists' = out.db.exists
  /\ rows' = out.db.rows
  /\ seq' = out.db.seq
  /\ req' = environ
  /\ resp' = out.resp
  /\ submitted' = IF Len(out.db.rows) > Len(rows)
                    THEN Append(submitted, parse_post_data(environ.body))
                    ELSE submitted

\* one request served from start to end
Serve(environ) == Answer(environ, application(environ, Store))

Environ(method, path, body) == [body |-> body, method |-> method, path |-> path]

Init ==
  /\ tableExists = FALSE
  /\ rows = <<>>
  /\ seq = 0
  /\ req = Environ(<<>>, "", <<>>)
  /\ resp = NoResp
  /\ submitted = <<>>

---------------------------------------------------------------------------
(* The requests the model sends.                                           *)

\* "HH:MM" of hour h and minute m, zero-padded
HM(h, m) ==
  <<Digits[(h \div 10) + 1], Digits[(h % 10) + 1], ":",
    Digits[(m \div 10) + 1], Digits[(m % 10) + 1]>>

\* the bodies that give key one of the values, or leave it out
Field(key, values, optional) ==
  {<<<<key, v>>>> : v \in values} \cup (IF optional THEN {<<>>} ELSE {})

Methods == {GET, POST, <<"g", "e", "t">>, <<"H", "E", "A", "D">>}

Paths == {"/", "/search", "/nonexistent"}

IsRoute(environ, method, path) ==
  upper(environ.method) = method /\ environ.path = path

AllTextFields ==
  <<<<"employee_name", <<" ", "A", "b", " ">>>>, <<"date", <<"1">>>>,
    <<"rotation", <<"J">>>>, <<"comment", <<" ", "c">>>>>>

Without(body, keys) == SelectSeq(body, LAMBDA kv : kv[1] \notin keys)

\* Spec: no text field left out, each one left out, all four left out
TextFields ==
  {Without(AllTextFields, keys) :
     keys \in {{}, {"employee_name"}, {"date"}, {"rotation"}, {"comment"},
               {"employee_name", "date", "rotation", "comment"}}}

\* Spec: the times sent with all four text fields
TimeFields ==
  {s \o e :
     s \in Field("start_time",
                 {<<"2", "2", ":", "0">>, <<"2", "4", ":", "0", "0">>}, TRUE),
     e \in Field("end_time", {HM(6, 0), <<"0", "6", "0", "0">>}, TRUE)}

RootBodies ==
  {t \o <<<<"start_time", HM(9, 0)>>, <<"end_time", HM(17, 0)>>>> :
     t \in TextFields}
  \cup {AllTextFields \o t : t \in TimeFields}

RootFilters == {<<>>, <<<<"employee_name", <<"c">>>>, <<"date", <<"1">>>>>>}

\* SpecSearch: names, dates and start times that differ
SearchBodies ==
  {a \o b \o c \o <<<<"end_time", HM(23, 0)>>, <<"rotation", <<"J">>>>>> :
     a \in Field("employee_name", {<<" ", "A", "b">>}, TRUE),
     b \in Field("date", {<<"2">>, <<" ", "1">>}, FALSE),
     c \in Field("start_time", {HM(10, 0), <<"9", ":", "0", "0">>}, FALSE)}

\* SpecSearch: a name filter, a date filter, or both
SearchFilters ==
  Field("employee_name", {<<"a">>, <<"b">>, <<"_">>, <<"%">>, <<"c">>}, TRUE)
  \cup Field("date", {<<" ", "1">>, <<"2">>}, FALSE)
  \cup {<<<<"employee_name", <<" ", "A">>>>, <<"date", <<"2">>>>>>,
        <<<<"employee_name", <<"c">>>>, <<"date", <<"2">>>>>>}

\* SpecHours: every end time of the day against these start times
HourStarts == {HM(h, m) : h \in 0..23, m \in {0, 29, 59}}

HourEnds == {HM(h, m) : h \in 0..23, m \in 0..59}

HourBody(s, e) ==
  <<<<"employee_name", <<"A", "b">>>>, <<"date", <<"1">>>>,
    <<"start_time", s>>, <<"end_time", e>>, <<"rotation", <<"J">>>>>>

---------------------------------------------------------------------------
(* Actions: one per class of request.                                      *)

GetRoot ==
  \E m \in Methods :
    /\ IsRoute(Environ(m, "/", <<>>), GET, "/")
    /\ Serve(Environ(m, "/", <<>>))

PostRoot ==
  \E b \in RootBodies :
    /\ IsRoute(Environ(POST, "/", b), POST, "/")
    /\ Serve(Environ(POST, "/", b))

GetSearch ==
  \E m \in Methods :
    /\ IsRoute(Environ(m, "/search", <<>>), GET, "/search")
    /\ Serve(Environ(m, "/search", <<>>))

PostSearch ==
  \E b \in RootFilters :
    /\ IsRoute(Environ(POST, "/search", b), POST, "/search")
    /\ Serve(Environ(POST, "/search", b))

NotFound ==
  \E m \in Methods, p \in Paths :
    /\ ~(p \in {"/", "/search"} /\ upper(m) \in {GET, POST})
    /\ Serve(Environ(m, p, <<>>))

\* SpecSearch: records entered to be searched
PostRootS ==
  \E b \in SearchBodies :
    /\ IsRoute(Environ(POST, "/", b), POST, "/")
    /\ Serve(Environ(POST, "/", b))

\* SpecSearch: the searches
PostSearchS ==
  \E b \in SearchFilters :
    /\ IsRoute(Environ(POST, "/search", b), POST, "/search")
    /\ Serve(Environ(POST, "/search", b))

\* SpecHours: a duration computed for a record entered in an empty table
PostHours ==
  /\ rows = <<>>
  /\ \E s \in HourStarts, e \in HourEnds :
       Serve(Environ(POST, "/", HourBody(s, e)))

Next ==
  \/ GetRoot
  \/ PostRoot
  \/ GetSearch
  \/ PostSearch
  \/ NotFound

Spec == Init /\ [][Next]_vars

NextSearch ==
  \/ PostRootS
  \/ PostSearchS

SpecSearch == Init /\ [][NextSearch]_vars

NextHours == PostHours

SpecHours == Init /\ [][NextHours]_vars

---------------------------------------------------------------------------
(* What the properties are stated with.  These read the request that was   *)
(* sent and the rows that are stored; they do not use the handler.         *)

Range(s) == {s[i] : i \in DOMAIN s}

\* no pair of the body gives key a value that is not blank
Missing(body, key) ==
  \A i \in DOMAIN body : body[i][1] = key => body[i][2] = <<>>

\* the value the body gives key: its first value that is not blank, else ""
Sent(body, key) ==
  IF Missing(body, key) THEN <<>>
  ELSE body[CHOOSE i \in DOMAIN body :
              /\ body[i][1] = key
              /\ body[i][2] # <<>>
              /\ \A j \in 1..(i - 1) : body[j][1] = key => body[j][2] = <<>>][2]

EqIgnoreCase(a, b) ==
  Len(a) = Len(b) /\ \A i \in DOMAIN a : LowerChar(a[i]) = LowerChar(b[i])

\* the request is served by the route of this method and path
OnRoute(r, method, path) == EqIgnoreCase(r.method, method) /\ r.path = path

\* a request has been served
Served == req.path # ""

AllDigits(s) == \A i \in DOMAIN s : s[i] \in Range(Digits)

\* two digits, a colon, two digits: an hour of 00-23 and a minute of 00-59
StrictHHMM(s) ==
  /\ Len(s) = 5
  /\ s[3] = ":"
  /\ AllDigits(<<s[1], s[2], s[4], s[5]>>)
  /\ 10 * DigitVal(s[1]) + DigitVal(s[2]) <= 23
  /\ 10 * DigitVal(s[4]) + DigitVal(s[5]) <= 59

\* one or two digits, a colon, one or two digits: hour 0-23, minute 0-59
Accepted(s) ==
  \E hl \in {1, 2}, ml \in {1, 2} :
    /\ Len(s) = hl + 1 + ml
    /\ s[hl + 1] = ":"
    /\ AllDigits(SubSeq(s, 1, hl))
    /\ AllDigits(SubSeq(s, hl + 2, Len(s)))
    /\ Decimal(SubSeq(s, 1, hl)) <= 23
    /\ Decimal(SubSeq(s, hl + 2, Len(s))) <= 59

\* minutes since midnight of an accepted time
ClockMinutes(s) ==
  60 * Decimal(SubSeq(s, 1, IndexOf(":", s) - 1))
  + Decimal(SubSeq(s, IndexOf(":", s) + 1, Len(s)))

\* minutes from start to end, end on the next day exactly when end <= start
MinutesBetween(start, end) ==
  IF end > start THEN end - start
  ELSE IF end < start THEN end - start + 1440
  ELSE 1440

\* h hundredths of an hour is minutes / 60 rounded to 2 decimals
IsHours(h, minutes) == 60 * h - 100 * minutes \in -30..30

\* the hours of a shift from start_time to end_time
HoursOf(h, start_time, end_time) ==
  IsHours(h, MinutesBetween(ClockMinutes(start_time), ClockMinutes(end_time)))

LastRow == rows[Len(rows)]

---------------------------------------------------------------------------
(* C1: for every pair of valid HH:MM strings the hours stored are the      *)
(* minutes from start to end over 60, rounded to 2 decimals, the end taken *)
(* on the next day exactly when end <= start: 09:00-17:00 is 8.0,          *)
(* 22:00-06:00 is 8.0 and 09:00-09:00 is 24.0.                             *)

DurationOf(start_time, end_time, h) ==
  /\ HoursOf(h, start_time, end_time)
  /\ start_time = HM(9, 0) /\ end_time = HM(17, 0) => h = 800
  /\ start_time = HM(22, 0) /\ end_time = HM(6, 0) => h = 800
  /\ start_time = end_time => h = 2400

C1_ValidTimesGiveElapsedHours ==
  (/\ OnRoute(req, POST, "/")
   /\ StrictHHMM(Sent(req.body, "start_time"))
   /\ StrictHHMM(Sent(req.body, "end_time")))
  => /\ resp.status = "303 See Other"
     /\ Len(rows) = 1
     /\ DurationOf(Sent(req.body, "start_time"), Sent(req.body, "end_time"),
                   LastRow.total_hours)

C1_Witness ==
  /\ OnRoute(req, POST, "/")
  /\ Sent(req.body, "start_time") = HM(22, 0)
  /\ Sent(req.body, "end_time") = HM(6, 0)
  /\ rows # <<>>
  /\ LastRow.total_hours = 800

---------------------------------------------------------------------------
(* C2, as stated: a POST / whose start_time or end_time is not a valid     *)
(* HH:MM time fails the request, answers no 303 and stores nothing.        *)

C2_Original ==
  [][(/\ OnRoute(req', POST, "/")
      /\ \/ ~StrictHHMM(Sent(req'.body, "start_time"))
         \/ ~StrictHHMM(Sent(req'.body, "end_time")))
     => /\ resp'.raised = "ValueError"
        /\ resp'.status # "303 See Other"
        /\ rows' = rows]_vars

(* C2, amended: a POST / whose start_time or end_time is not a time the    *)
(* parser accepts (one or two digits of an hour 0-23, a colon, one or two  *)
(* digits of a minute 0-59) fails the request, answers no 303 and stores   *)
(* nothing.                                                                *)

C2_RejectedTimeFailsRequest ==
  [][(/\ OnRoute(req', POST, "/")
      /\ \/ ~Accepted(Sent(req'.body, "start_time"))
         \/ ~Accepted(Sent(req'.body, "end_time")))
     => /\ resp'.raised = "ValueError"
        /\ resp'.status # "303 See Other"
        /\ rows' = rows]_vars

C2_Witness ==
  /\ OnRoute(req, POST, "/")
  /\ Sent(req.body, "start_time") = <<"2", "4", ":", "0", "0">>
  /\ resp.raised = "ValueError"
  /\ rows # <<>>

---------------------------------------------------------------------------
(* C3, as stated: a POST / in which any of the six form fields is missing  *)
(* is not rejected: it answers 303 and stores a record whose missing       *)
(* fields are empty.                                                       *)

FormFields ==
  {"employee_name", "date", "start_time", "end_time", "rotation", "comment"}

TextFieldNames == {"employee_name", "date", "rotation", "comment"}

\* the step stores one more row, with every missing field of keys empty
StoredWithDefaults(keys) ==
  /\ resp'.status = "303 See Other"
  /\ Len(rows') = Len(rows) + 1
  /\ \A k \in keys : Missing(req'.body, k) => rows'[Len(rows')][k] = <<>>

C3_Original ==
  [][(/\ OnRoute(req', POST, "/")
      /\ \E k \in FormFields : Missing(req'.body, k))
     => StoredWithDefaults(FormFields)]_vars

(* C3, amended: a POST / in which any of employee_name, date, rotation,    *)
(* comment is missing, and whose times the parser accepts, is not          *)
(* rejected: it answers 303 and stores a record whose missing fields are   *)
(* empty; a POST / in which start_time or end_time is missing fails and    *)
(* stores nothing.                                                         *)

C3_MissingTextDefaultsMissingTimeFails ==
  [][OnRoute(req', POST, "/")
     => /\ (/\ \E k \in TextFieldNames : Missing(req'.body, k)
            /\ Accepted(Sent(req'.body, "start_time"))
            /\ Accepted(Sent(req'.body, "end_time")))
           => StoredWithDefaults(TextFieldNames)
        /\ (\/ Missing(req'.body, "start_time")
            \/ Missing(req'.body, "end_time"))
           => /\ resp'.raised = "ValueError"
              /\ rows' = rows]_vars

C3_Witness ==
  /\ OnRoute(req, POST, "/")
  /\ \A k \in TextFieldNames : Missing(req.body, k)
  /\ resp.status = "303 See Other"
  /\ rows # <<>>
  /\ \A k \in TextFieldNames : LastRow[k] = <<>>

---------------------------------------------------------------------------
(* C4, as stated: POST /search with trimmed filters (name, date) returns   *)
(* exactly the rows whose employee_name contains name as a case-sensitive  *)
(* substring (or name is empty) and whose date equals date (or date is     *)
(* empty).                                                                 *)

NameFilter == strip(Sent(req.body, "employee_name"))

DateFilter == strip(Sent(req.body, "date"))

Contains(s, n) ==
  \E k \in 0..(Len(s) - Len(n)) : SubSeq(s, k + 1, k + Len(n)) = n

\* n occurs in s when letters are compared without case, _ stands for any
\* one character and % for any run of characters
ContainsLike(s, n) ==
  \E g \in [{i \in DOMAIN n : n[i] # "%"} -> DOMAIN s] :
    /\ \A i, j \in DOMAIN g : i < j => g[i] < g[j]
    /\ \A i \in DOMAIN g : i + 1 \in DOMAIN g => g[i + 1] = g[i] + 1
    /\ \A i \in DOMAIN g : n[i] = "_" \/ LowerChar(n[i]) = LowerChar(s[g[i]])

\* the results are rows of the table, none twice
ResultsAreRows ==
  /\ Range(resp.results) \subseteq Range(rows)
  /\ \A i, j \in DOMAIN resp.results :
       i # j => resp.results[i].id # resp.results[j].id

C4_Original ==
  OnRoute(req, POST, "/search")
  => /\ ResultsAreRows
     /\ \A r \in Range(rows) :
          r \in Range(resp.results)
          <=> /\ NameFilter = <<>> \/ Contains(r.employee_name, NameFilter)
              /\ DateFilter = <<>> \/ r.date = DateFilter

(* C4, amended: POST /search with trimmed filters (name, date) returns     *)
(* exactly the rows whose employee_name contains name, letters compared    *)
(* without case and _ and % in name standing for any one character and any *)
(* run of characters (or name is empty), and whose date equals date (or    *)
(* date is empty).                                                         *)

C4_SearchReturnsLikeMatches ==
  OnRoute(req, POST, "/search")
  => /\ ResultsAreRows
     /\ \A r \in Range(rows) :
          r \in Range(resp.results)
          <=> /\ NameFilter = <<>> \/ ContainsLike(r.employee_name, NameFilter)
              /\ DateFilter = <<>> \/ r.date = DateFilter
     /\ NameFilter = <<>> /\ DateFilter = <<>>
        => Len(resp.results) = Len(rows)

C4_Witness ==
  /\ OnRoute(req, POST, "/search")
  /\ NameFilter = <<"a">>
  /\ \E r \in Range(resp.results) : r.employee_name = <<"A", "b">>
  /\ \E r \in Range(rows) : r \notin Range(resp.results)

---------------------------------------------------------------------------
(* C5: the results of every POST /search are ordered by date descending    *)
(* and, for equal dates, by start time ascending (both compared as text);  *)
(* with both filters empty they are all the rows, and with a name that     *)
(* matches no row they are empty.                                          *)

\* a < b in the order of their character codes
TextLess(a, b) ==
  \E k \in 0..Len(a) :
    /\ k <= Len(b)
    /\ SubSeq(a, 1, k) = SubSeq(b, 1, k)
    /\ \/ k = Len(a) /\ k < Len(b)
       \/ k < Len(a) /\ k < Len(b) /\ Ord(a[k + 1]) < Ord(b[k + 1])

---------------------------------------------------------------------------
(* C6, as stated: after a record is entered by a successful POST /, a POST *)
(* /search with a substring of that employee name and that exact date      *)
(* returns exactly that record, every submitted field verbatim, and        *)
(* total_hours as computed from its start_time and end_time.               *)

\* the search sent a substring of the name and the date submitted as form
SearchesFor(form) ==
  /\ OnRoute(req, POST, "/search")
  /\ Contains(Get(form, "employee_name"), Sent(req.body, "employee_name"))
  /\ Sent(req.body, "date") = Get(form, "date")

C6_Original ==
  \A i \in DOMAIN rows :
    SearchesFor(submitted[i])
    => /\ resp.results = <<rows[i]>>
       /\ \A k \in FormFields : rows[i][k] = Get(submitted[i], k)
       /\ HoursOf(rows[i].total_hours, Get(submitted[i], "start_time"),
                  Get(submitted[i], "end_time"))

(* C6, amended: after a record is entered by a successful POST / whose     *)
(* date has no leading or trailing whitespace, a POST /search with a       *)
(* substring of that employee name and that exact date returns that record *)
(* once, together with the other stored records that match the filters;    *)
(* its date, start_time, end_time and rotation are the submitted ones      *)
(* verbatim, its employee_name and comment the submitted ones with the     *)
(* surrounding whitespace removed, and its total_hours as computed from    *)
(* its start_time and end_time.                                            *)

Trimmed(s) == s = <<>> \/ (s[1] # " " /\ s[Len(s)] # " ")

\* s without the spaces around it
IsTrimOf(t, s) ==
  /\ Trimmed(t)
  /\ \E k \in 0..Len(s) :
       /\ \A j \in 1..k : s[j] = " "
       /\ \A j \in (k + Len(t) + 1)..Len(s) : s[j] = " "
       /\ k + Len(t) <= Len(s)
       /\ SubSeq(s, k + 1, k + Len(t)) = t

C6_RoundTrip ==
  \A i \in DOMAIN rows :
    /\ \A k \in {"date", "start_time", "end_time", "rotation"} :
         rows[i][k] = Get(submitted[i], k)
    /\ IsTrimOf(rows[i].employee_name, Get(submitted[i], "employee_name"))
    /\ IsTrimOf(rows[i].comment, Get(submitted[i], "comment"))
    /\ HoursOf(rows[i].total_hours, Get(submitted[i], "start_time"),
               Get(submitted[i], "end_time"))
    /\ (SearchesFor(submitted[i]) /\ Trimmed(Get(submitted[i], "date")))
       => /\ Cardinality({j \in DOMAIN resp.results :
                            resp.results[j] = rows[i]}) = 1
          /\ (\A j \in DOMAIN rows :
                j # i => ~(/\ NameFilter = <<>>
                              \/ ContainsLike(rows[j].employee_name, NameFilter)
                           /\ DateFilter = <<>> \/ rows[j].date = DateFilter))
             => resp.results = <<rows[i]>>

C6_Witness ==
  /\ OnRoute(req, POST, "/search")
  /\ Len(rows) >= 2
  /\ Sent(req.body, "employee_name") = <<" ", "A">>
  /\ \E i \in DOMAIN rows :
       /\ SearchesFor(submitted[i])
       /\ Get(submitted[i], "employee_name") = <<" ", "A", "b">>
       /\ resp.results = <<rows[i]>>

---------------------------------------------------------------------------
(* C7: records are append-only: every row stays, with its id and its       *)
(* values; rows are created only by POST /; ids are pairwise distinct and  *)
(* a row created later has a greater id than every row created earlier.    *)

C7_AppendOnly ==
  [][/\ Len(rows') >= Len(rows)
     /\ \A i \in DOMAIN rows : rows'[i] = rows[i]
     /\ rows' # rows => OnRoute(req', POST, "/")
     /\ \A i, j \in DOMAIN rows' : i < j => rows'[i].id < rows'[j].id
     /\ \A i, j \in DOMAIN rows' : i # j => rows'[i].id # rows'[j].id]_vars

C7_Witness ==
  /\ Len(rows) = 3
  /\ rows[1].id < rows[2].id
  /\ rows[2].id < rows[3].id
  /\ OnRoute(req, POST, "/search")

---------------------------------------------------------------------------
(* C8: every stored record has total_hours >= 0, equal to the duration of  *)
(* its own stored start_time and end_time.                                 *)

C8_StoredHoursAgreeWithTimes ==
  \A r \in Range(rows) :
    /\ r.total_hours >= 0
    /\ HoursOf(r.total_hours, r.start_time, r.end_time)

C8_Witness ==
  \E r \in Range(rows) :
    /\ r.start_time = <<"2", "2", ":", "0">>
    /\ r.end_time = HM(6, 0)
    /\ r.total_hours = 800

---------------------------------------------------------------------------
(* C9, as stated: every request whose (method, path) is not one of GET /,  *)
(* POST /, GET /search, POST /search is answered 404 with the body         *)
(* "404 Not Found"; GET / and GET /search are answered 200, a successful   *)
(* POST / 303 with Location: / and an empty body, POST /search 200.        *)

\* the answers of the four routes
RouteAnswers(isGetRoot, isPostRoot, isGetSearch, isPostSearch) ==
  /\ isGetRoot \/ isGetSearch \/ isPostSearch => resp.status = "200 OK"
  /\ isPostRoot
     => \/ resp.raised # ""
        \/ /\ resp.status = "303 See Other"
           /\ resp.headers = <<<<"Location", "/">>>>
           /\ resp.body = ""
  /\ ~(isGetRoot \/ isPostRoot \/ isGetSearch \/ isPostSearch)
     => /\ resp.status = "404 Not Found"
        /\ resp.body = "404 Not Found"

C9_Original ==
  Served
  => RouteAnswers(req.method = GET /\ req.path = "/",
                  req.method = POST /\ req.path = "/",
                  req.method = GET /\ req.path = "/search",
                  req.method = POST /\ req.path = "/search")

(* C9, amended: the same, with the method compared without regard to the   *)
(* case of its letters (the handler upper-cases it): get / is answered as  *)
(* GET / is.                                                               *)

C9_RoutesByUpperCasedMethod ==
  Served
  => RouteAnswers(OnRoute(req, GET, "/"), OnRoute(req, POST, "/"),
                  OnRoute(req, GET, "/search"), OnRoute(req, POST, "/search"))

C9_Witness ==
  /\ req.method = <<"H", "E", "A", "D">>
  /\ req.path = "/search"
  /\ resp.status = "404 Not Found"
  /\ resp.body = "404 Not Found"

---------------------------------------------------------------------------
(* C10: schema initialization, run at the start of every request, neither  *)
(* alters nor duplicates nor removes rows, however often it runs; every    *)
(* request other than a successful POST / leaves the rows unchanged, and a *)
(* successful POST / adds exactly one row.                                 *)

C10_InitDbKeepsRows ==
  [][/\ init_db(Store).rows = rows
     /\ init_db(init_db(Store)) = init_db(Store)
     /\ IF OnRoute(req', POST, "/") /\ resp'.status = "303 See Other"
          THEN /\ Len(rows') = Len(rows) + 1
               /\ SubSeq(rows', 1, Len(rows)) = rows
          ELSE rows' = rows]_vars

C10_Witness ==
  /\ rows # <<>>
  /\ OnRoute(req, GET, "/search")
  /\ resp.status = "200 OK"

=============================================================================
